---- MODULE Spec2Model ----
(***************************************************************************)
(* xid-for-time (src/main.go): find the last row of a table committed      *)
(* before a target time and report its xmin.                               *)
(*                                                                         *)
(* main() runs five blocking calls one after the other on one connection:  *)
(* pgx.Connect, the timestamp parse, selectThresholds, selectPastThreshold *)
(* and selectBeforeThreshold.  Every error ends the process through        *)
(* kingpin.Fatalf (os.Exit(1)).  A goroutine cancels the context shared by *)
(* all five calls when SIGTERM arrives.                                    *)
(*                                                                         *)
(* The table, the pg_stats histogram and the target are the inputs.  Keys  *)
(* (the textual id column, totally ordered) are modelled by 1..n, times by *)
(* integers.  The store is reachable and healthy: the only query errors    *)
(* are the ones the program's own inputs and its context produce.          *)
(***************************************************************************)
EXTENDS Integers, Sequences, FiniteSets

\* Bounds of the model.
MaxKey == 4
MaxTime == 3

VARIABLES
    table,             \* {{ .Table }}: key -> [created_at, xmin]
    hist,              \* pg_stats.histogram_bounds of the id column
    targetTimeString,  \* *targetTimeString: [valid, t]
    pc,                \* main's position: the call it is at, or done / failed
    inflight,          \* the call at pc has been made and has not returned
    ctxDone,           \* ctx has been cancelled
    connOpen,          \* conn is an open connection
    log,               \* the events written to the logger, in order
    thresholds,        \* thresholds struct
    exceeded,          \* exceededID, exceededCreatedAt
    before,            \* beforeID, beforeCreatedAt, beforeXMin
    failedAt,          \* the call whose error reached kingpin.Fatalf
    issued,            \* history: the calls main has made
    cancelAt,          \* history: main's position when cancel() ran
    firstRun           \* history: the outcome of the previous run of the program

vars == <<table, hist, targetTimeString, pc, inflight, ctxDone, connOpen, log,
          thresholds, exceeded, before, failedAt, issued, cancelAt, firstRun>>

Keys == 1..MaxKey
Times == 1..MaxTime

Stages == <<"connect", "parse", "bracket", "probe", "resolve">>
StageNo(s) == CHOOSE i \in 1..Len(Stages) : Stages[i] = s
Terminal == pc \in {"done", "failed"}

ZeroThresholds == [MinID |-> 0, MinCreatedAt |-> 0, MaxID |-> 0, MaxCreatedAt |-> 0]
ZeroExceeded == [id |-> 0, created_at |-> 0]
ZeroBefore == [id |-> 0, created_at |-> 0, xmin |-> 0]
NoCancel == [pc |-> "none", inflight |-> FALSE]
NoRun == [pc |-> "none", failedAt |-> "none", before |-> ZeroBefore]

(***************************************************************************)
(* The three queries.  Each returns the set of rows the store may answer   *)
(* with: empty (pgx.ErrNoRows), or the candidates for the single row that  *)
(* "limit 1" keeps.                                                        *)
(***************************************************************************)

\* t1's rows: the rows of the table whose id is a histogram bound.
Samples(tbl, h) == {k \in DOMAIN tbl : k \in h}

MaxCreatedAtOf(tbl, S) == {k \in S : \A j \in S : tbl[j].created_at <= tbl[k].created_at}

\* "order by created_at desc": every order of S the sort may produce.  Rows
\* with equal created_at are peers and come out in any order.
RECURSIVE CreatedAtDescOrders(_, _)
CreatedAtDescOrders(tbl, S) ==
    IF S = {} THEN {<< >>}
    ELSE UNION {{<<k>> \o s : s \in CreatedAtDescOrders(tbl, S \ {k})} :
                    k \in MaxCreatedAtOf(tbl, S)}

\* t2's rows over one window order w: each sample with lag(.., 1), the row
\* before it in w; the first row's lag is NULL.
T2(tbl, w) ==
    {[min_id |-> w[i],
      min_created_at |-> tbl[w[i]].created_at,
      max_null |-> (i = 1),
      max_id |-> IF i = 1 THEN 0 ELSE w[i - 1],
      max_created_at |-> IF i = 1 THEN 0 ELSE tbl[w[i - 1]].created_at] :
        i \in 1..Len(w)}

\* "where min_created_at < $1 order by min_created_at desc limit 1".
ThresholdsLimit1(rows, target) ==
    LET kept == {r \in rows : r.min_created_at < target}
    IN {r \in kept : \A q \in kept : q.min_created_at <= r.min_created_at}

selectThresholds(tbl, h, target) ==
    UNION {ThresholdsLimit1(T2(tbl, w), target) :
               w \in CreatedAtDescOrders(tbl, Samples(tbl, h))}

\* The forward probe without its lower bound "id > $1".
selectPastThresholdUnbounded(tbl, minID, maxID, target) ==
    LET past == {k \in DOMAIN tbl : k < maxID /\ tbl[k].created_at > target}
    IN {[id |-> k, created_at |-> tbl[k].created_at] :
            k \in {k \in past : \A j \in past : k <= j}}

selectPastThreshold(tbl, minID, maxID, target) ==
    LET past == {k \in DOMAIN tbl :
                    k > minID /\ k < maxID /\ tbl[k].created_at > target}
    IN {[id |-> k, created_at |-> tbl[k].created_at] :
            k \in {k \in past : \A j \in past : k <= j}}

selectBeforeThreshold(tbl, exceededID) ==
    LET prior == {k \in DOMAIN tbl : k < exceededID}
    IN {[id |-> k, created_at |-> tbl[k].created_at, xmin |-> tbl[k].xmin] :
            k \in {k \in prior : \A j \in prior : j <= k}}

(***************************************************************************)
(* main                                                                    *)
(***************************************************************************)

\* The calls given context.Background() instead of ctx: never done.
QueryCtxBackground == FALSE

\* The context every call is given is ctx: a call fails once ctx is done.
QueryCtxDone == ctxDone

\* logger.Log("event", ...)
LogConnect(l) == Append(l, "connect")
\* The bracket's event held back instead of written as soon as it is known.
LogFoundThresholdsDeferred(l) == l
LogFoundThresholds(l) == Append(l, "found_thresholds")
LogFirstPastThreshold(l) == Append(l, "first_past_threshold")
LogFirstBeforeThreshold(l) == Append(l, "first_before_threshold")

\* kingpin.Fatalf: the process exits; no deferred call runs.
Fatalf(stage) ==
    /\ pc' = "failed"
    /\ failedAt' = stage
    /\ inflight' = FALSE

\* main makes the call at pc.  The connect event is logged before
\* pgx.Connect.  A call made with ctx already done fails at once.
Call ==
    /\ ~Terminal
    /\ ~inflight
    /\ issued' = issued \cup {pc}
    /\ log' = IF pc = "connect" THEN LogConnect(log) ELSE log
    /\ IF QueryCtxDone
          THEN Fatalf(pc)
          ELSE /\ inflight' = TRUE
               /\ UNCHANGED <<pc, failedAt>>
    /\ UNCHANGED <<table, hist, targetTimeString, ctxDone, connOpen,
                   thresholds, exceeded, before, cancelAt, firstRun>>

\* pgx.Connect returns.
ConnectReturn ==
    /\ pc = "connect" /\ inflight
    /\ IF QueryCtxDone
          THEN Fatalf("connect") /\ UNCHANGED connOpen
          ELSE /\ connOpen' = TRUE
               /\ pc' = "parse"
               /\ inflight' = FALSE
               /\ UNCHANGED failedAt
    /\ UNCHANGED <<table, hist, targetTimeString, ctxDone, log,
                   thresholds, exceeded, before, issued, cancelAt, firstRun>>

\* select '<time>'::timestamp returns.
ParseReturn ==
    /\ pc = "parse" /\ inflight
    /\ IF QueryCtxDone \/ ~targetTimeString.valid
          THEN Fatalf("parse")
          ELSE /\ pc' = "bracket"
               /\ inflight' = FALSE
               /\ UNCHANGED failedAt
    /\ UNCHANGED <<table, hist, targetTimeString, ctxDone, connOpen, log,
                   thresholds, exceeded, before, issued, cancelAt, firstRun>>

\* selectThresholds returns: no row, or a row whose max_id is NULL (Scan
\* into a string fails), or the thresholds, which are then logged.
BracketReturn ==
    /\ pc = "bracket" /\ inflight
    /\ LET rows == selectThresholds(table, hist, targetTimeString.t)
       IN IF QueryCtxDone \/ rows = {}
             THEN Fatalf("bracket") /\ UNCHANGED <<thresholds, log>>
             ELSE \E r \in rows :
                     IF r.max_null
                        THEN Fatalf("bracket") /\ UNCHANGED <<thresholds, log>>
                        ELSE /\ thresholds' = [MinID |-> r.min_id,
                                               MinCreatedAt |-> r.min_created_at,
                                               MaxID |-> r.max_id,
                                               MaxCreatedAt |-> r.max_created_at]
                             /\ log' = LogFoundThresholds(log)
                             /\ pc' = "probe"
                             /\ inflight' = FALSE
                             /\ UNCHANGED failedAt
    /\ UNCHANGED <<table, hist, targetTimeString, ctxDone, connOpen,
                   exceeded, before, issued, cancelAt, firstRun>>

\* selectPastThreshold returns.
ProbeReturn ==
    /\ pc = "probe" /\ inflight
    /\ LET rows == selectPastThreshold(table, thresholds.MinID, thresholds.MaxID,
                                       targetTimeString.t)
       IN IF QueryCtxDone \/ rows = {}
             THEN Fatalf("probe") /\ UNCHANGED <<exceeded, log>>
             ELSE \E r \in rows :
                     /\ exceeded' = r
                     /\ log' = LogFirstPastThreshold(log)
                     /\ pc' = "resolve"
                     /\ inflight' = FALSE
                     /\ UNCHANGED failedAt
    /\ UNCHANGED <<table, hist, targetTimeString, ctxDone, connOpen,
                   thresholds, before, issued, cancelAt, firstRun>>

\* selectBeforeThreshold returns; main logs the result and returns, which
\* runs the deferred cancel().
ResolveReturn ==
    /\ pc = "resolve" /\ inflight
    /\ LET rows == selectBeforeThreshold(table, exceeded.id)
       IN IF QueryCtxDone \/ rows = {}
             THEN Fatalf("resolve") /\ UNCHANGED <<before, log, ctxDone>>
             ELSE \E r \in rows :
                     /\ before' = r
                     /\ log' = LogFirstBeforeThreshold(log)
                     /\ pc' = "done"
                     /\ inflight' = FALSE
                     /\ ctxDone' = TRUE
                     /\ UNCHANGED failedAt
    /\ UNCHANGED <<table, hist, targetTimeString, connOpen,
                   thresholds, exceeded, issued, cancelAt, firstRun>>

\* The signal goroutine: SIGTERM is received while the process runs, the
\* message is logged and cancel() is called.
Sigterm ==
    /\ ~Terminal
    /\ cancelAt = NoCancel
    /\ ctxDone' = TRUE
    /\ log' = Append(log, "received signal, shutting down")
    /\ cancelAt' = [pc |-> pc, inflight |-> inflight]
    /\ UNCHANGED <<table, hist, targetTimeString, pc, inflight, connOpen,
                   thresholds, exceeded, before, failedAt, issued, firstRun>>

\* The program is run again on the same table, statistics and target.
Rerun ==
    /\ Terminal
    /\ firstRun = NoRun
    /\ firstRun' = [pc |-> pc, failedAt |-> failedAt, before |-> before]
    /\ pc' = "connect"
    /\ inflight' = FALSE
    /\ ctxDone' = FALSE
    /\ connOpen' = FALSE
    /\ log' = << >>
    /\ thresholds' = ZeroThresholds
    /\ exceeded' = ZeroExceeded
    /\ before' = ZeroBefore
    /\ failedAt' = "none"
    /\ issued' = {}
    /\ cancelAt' = NoCancel
    /\ UNCHANGED <<table, hist, targetTimeString>>

(***************************************************************************)
(* Specifications                                                          *)
(***************************************************************************)

Row(t, k) == [created_at |-> t, xmin |-> 100 + k]

Targets == [valid : {TRUE}, t : Times] \cup {[valid |-> FALSE, t |-> 0]}

InitRun ==
    /\ pc = "connect"
    /\ inflight = FALSE
    /\ ctxDone = FALSE
    /\ connOpen = FALSE
    /\ log = << >>
    /\ thresholds = ZeroThresholds
    /\ exceeded = ZeroExceeded
    /\ before = ZeroBefore
    /\ failedAt = "none"
    /\ issued = {}
    /\ cancelAt = NoCancel
    /\ firstRun = NoRun

\* Any table of at most MaxKey rows, any histogram, any target.
Init ==
    /\ \E n \in 0..MaxKey : \E ts \in [1..n -> Times] :
           table = [k \in 1..n |-> Row(ts[k], k)]
    /\ hist \in SUBSET Keys
    /\ targetTimeString \in Targets
    /\ InitRun

Main == Call \/ ConnectReturn \/ ParseReturn \/ BracketReturn \/ ProbeReturn \/ ResolveReturn

Next == Main \/ Sigterm

\* One run of the program, with SIGTERM possible at any point.
Spec == Init /\ [][Next]_vars

NextTwice == Main \/ Rerun

\* Two runs of the program on the same inputs, with no signal.
SpecTwice == Init /\ [][NextTwice]_vars

\* The table of the worked scenario: rows (1,10), (2,20), (3,30), (4,40),
\* with any of its keys as histogram bounds and any target around them.
InitScenario ==
    /\ table = [k \in 1..4 |-> Row(10 * k, k)]
    /\ hist \in SUBSET {1, 2, 3, 4}
    /\ targetTimeString \in [valid : {TRUE}, t : 1..50]
    /\ InitRun

SpecScenario == InitScenario /\ [][Next]_vars

(***************************************************************************)
(* Properties                                                              *)
(***************************************************************************)

Range(s) == {s[i] : i \in DOMAIN s}
Target == targetTimeString.t
Uncancelled == cancelAt = NoCancel
SampleSet == Samples(table, hist)
Monotone == \A i, j \in DOMAIN table : i < j => table[i].created_at <= table[j].created_at
RowsBefore == {k \in DOMAIN table : table[k].created_at < Target}
SuccessorOf(id) == {k \in DOMAIN table : k > id /\ \A j \in DOMAIN table : j > id => k <= j}

\* The target is later than some sample and not later than the latest one.
InRange ==
    /\ targetTimeString.valid
    /\ \E k \in SampleSet : table[k].created_at < Target
    /\ \E k \in SampleSet : Target <= table[k].created_at

\* C1: on a table whose creation times are non-decreasing in key, with the
\* samples drawn from the table and the target in range, the run ends in Done
\* with the BoundaryRecord of maximal creation time below the target, whose
\* successor by key is the ExceedingRecord, later than the target.
C1_BoundaryOfMonotoneTable ==
    (Monotone /\ hist \subseteq DOMAIN table /\ InRange /\ Uncancelled /\ Terminal) =>
        /\ pc = "done"
        /\ before.id \in RowsBefore
        /\ \A k \in RowsBefore : table[k].created_at <= before.created_at
        /\ SuccessorOf(before.id) = {exceeded.id}
        /\ exceeded.created_at > Target

\* C2: when the target equals the creation time of some row, a BoundaryRecord
\* that is output has a creation time strictly less than the target.
C2_StrictlyBeforeTarget ==
    (pc = "done" /\ \E k \in DOMAIN table : table[k].created_at = Target) =>
        before.created_at < Target

\* C3: on the scenario table with samples {1,2,3,4} and target 25 the run
\* outputs the bracket (2,20)-(3,30), the ExceedingRecord (3,30) and the
\* BoundaryRecord (2,20).
C3_Scenario ==
    (hist = {1, 2, 3, 4} /\ Target = 25 /\ Uncancelled /\ Terminal) =>
        /\ pc = "done"
        /\ thresholds = [MinID |-> 2, MinCreatedAt |-> 20, MaxID |-> 3, MaxCreatedAt |-> 30]
        /\ exceeded = [id |-> 3, created_at |-> 30]
        /\ before.id = 2 /\ before.created_at = 20

\* C4: two runs on the same unchanged table, statistics and target end the
\* same way and, when they output a BoundaryRecord, output the same one.
C4_SameOutcomeTwice ==
    (firstRun # NoRun /\ Terminal) =>
        /\ pc = firstRun.pc
        /\ before = firstRun.before

\* No sample, or the target not later than any sample, or later than every one.
OutOfRange ==
    /\ targetTimeString.valid
    /\ \/ \A k \in SampleSet : Target <= table[k].created_at
       \/ \A k \in SampleSet : table[k].created_at < Target

\* C5: an out-of-range target fails in the bracket stage: no forward-probe or
\* resolver query is issued and no BoundaryRecord is output.
C5_OutOfRangeFailsInBracket ==
    OutOfRange =>
        /\ issued \cap {"probe", "resolve"} = {}
        /\ pc # "done"
        /\ "first_before_threshold" \notin Range(log)
        /\ (pc = "failed" /\ Uncancelled) => failedAt = "bracket"

\* C6: in every terminal state of a run that connected, the connection has
\* been closed by the program.
C6_ConnectionReleased ==
    Terminal => ~connOpen

StagesUpTo(s) == {Stages[i] : i \in 1..StageNo(s)}

\* C7: once cancel() has run before the resolver has returned, the call in
\* flight or the next call fails: main gets no further than the call it was
\* at, fails there, makes no later call and outputs no BoundaryRecord.
C7_CancellationObserved ==
    ~Uncancelled =>
        /\ pc \in {cancelAt.pc, "failed"}
        /\ pc = cancelAt.pc => inflight = cancelAt.inflight /\ ENABLED Main
        /\ pc = "failed" => failedAt = cancelAt.pc
        /\ issued \subseteq StagesUpTo(cancelAt.pc)
        /\ "first_before_threshold" \notin Range(log)
        /\ before = ZeroBefore

\* C7 witness: cancel() ran while the resolver query was in flight, and the
\* run failed there.
C7_Witness ==
    /\ cancelAt = [pc |-> "resolve", inflight |-> TRUE]
    /\ pc = "failed"
    /\ failedAt = "resolve"

StageResults == {"found_thresholds", "first_past_threshold", "first_before_threshold"}
StageResultsLogged == SelectSeq(log, LAMBDA e : e \in StageResults)

\* C8 as stated: a run that ends in Failed has written no stage-result event.
C8_NoStageResultOnFailure ==
    pc = "failed" => StageResultsLogged = << >>

\* C8 amended: a failed run has written exactly the stage results of the
\* stages that completed before the failing one, in order, and never the
\* BoundaryRecord.
C8_ResultsOfCompletedStages ==
    pc = "failed" =>
        StageResultsLogged =
            CASE failedAt = "probe" -> <<"found_thresholds">>
              [] failedAt = "resolve" -> <<"found_thresholds", "first_past_threshold">>
              [] OTHER -> << >>

\* C8 witness: a run that failed in the resolver after two stage results.
C8_Witness ==
    /\ pc = "failed"
    /\ failedAt = "resolve"
    /\ StageResultsLogged = <<"found_thresholds", "first_past_threshold">>

\* The order (created_at desc, key desc) of a set of samples.
RECURSIVE KeyDescOrder(_)
KeyDescOrder(S) ==
    IF S = {} THEN << >>
    ELSE LET k == CHOOSE k \in MaxCreatedAtOf(table, S) :
                      \A j \in MaxCreatedAtOf(table, S) : j <= k
         IN <<k>> \o KeyDescOrder(S \ {k})

\* The row the bracket query keeps under that order.
KeyDescBracket ==
    LET rows == ThresholdsLimit1(T2(table, KeyDescOrder(SampleSet)), Target)
    IN {r \in rows : \A q \in rows : q.min_id <= r.min_id}

\* C9: samples with equal creation times are ordered by key descending, so
\* the bracket is the one (created_at desc, key desc) determines.
C9_TieBreakByKeyDesc ==
    /\ thresholds # ZeroThresholds =>
           \E r \in KeyDescBracket :
               /\ ~r.max_null
               /\ thresholds = [MinID |-> r.min_id, MinCreatedAt |-> r.min_created_at,
                                MaxID |-> r.max_id, MaxCreatedAt |-> r.max_created_at]
    /\ (pc = "failed" /\ failedAt = "bracket" /\ Uncancelled) =>
           \A r \in KeyDescBracket : r.max_null

\* C10: once the forward probe has returned an ExceedingRecord, the row
\* before it exists (the resolver fails only when cancelled), its key is at
\* least minID and below the ExceedingRecord's, its creation time is not
\* after the target, and it is the BoundaryRecord that is output.
C10_ResolverFindsBoundary ==
    exceeded # ZeroExceeded =>
        LET rows == selectBeforeThreshold(table, exceeded.id)
        IN /\ rows # {}
           /\ \A r \in rows : /\ thresholds.MinID <= r.id
                              /\ r.id < exceeded.id
                              /\ r.created_at <= Target
           /\ pc = "done" => before \in rows
           /\ pc = "failed" => ~Uncancelled

\* C10 witness: a run ended in Done on a table whose creation times are not
\* monotonic in key.
C10_Witness ==
    /\ pc = "done"
    /\ ~Monotone
    /\ before.id > thresholds.MinID

====
